---- MODULE Spec2Model ----
(***************************************************************************)
(* Model of kenwi/fan-control:                                             *)
(*   plot_custom_curve.py  plot_temperature_data(csv_file, smooth_window)  *)
(*   plot_fan_curve.py     calculate_fan_speed(temp) and fan_speeds        *)
(* Numbers are exact rationals [num, den]; NaN is the record 0/0.          *)
(***************************************************************************)
EXTENDS Integers, Sequences, FiniteSets, TLC

\* ---------------------------------------------------------------- bounds
MaxRows == 3
MaxVal == 1
MaxWindow == 4
MaxBelow == 3
MaxAbove == 4
TempDen == 2

\* ------------------------------------------------------------- rationals
\* Python objects: None and the integers
None == [type |-> "NoneType"]
PyInt(n) == [type |-> "int", value |-> n]

\* not-a-number, kept apart from every rational (whose den is positive)
NaN == [num |-> 0, den |-> 0]

Abs(x) == IF x < 0 THEN -x ELSE x

RECURSIVE GCD(_, _)
GCD(a, b) == IF b = 0 THEN Abs(a) ELSE GCD(b, a % b)

\* the rational n/d in lowest terms, d > 0
Rat(n, d) ==
    LET g == GCD(n, d)
    IN  [num |-> n \div g, den |-> d \div g]

RAdd(a, b) == Rat(a.num * b.den + b.num * a.den, a.den * b.den)

\* a <= b, compared by integer parts and then by the reciprocals of the
\* fractional parts (no product of numerators and denominators is formed)
RECURSIVE RLeq(_, _)
RLeq(a, b) ==
    LET fa == a.num \div a.den
        fb == b.num \div b.den
        ra == a.num % a.den
        rb == b.num % b.den
    IN  IF fa # fb THEN fa < fb
        ELSE IF ra = 0 THEN TRUE
        ELSE IF rb = 0 THEN FALSE
        ELSE RLeq([num |-> b.den, den |-> rb], [num |-> a.den, den |-> ra])

\* a * b, cancelling across before multiplying
RMul(a, b) ==
    LET g1 == GCD(a.num, b.den)
        g2 == GCD(b.num, a.den)
    IN  [num |-> (a.num \div g1) * (b.num \div g2),
         den |-> (a.den \div g2) * (b.den \div g1)]

\* a / b for b > 0
RDiv(a, b) == RMul(a, [num |-> b.den, den |-> b.num])

\* Python's min(a, b): b only when b < a
RMin(a, b) == IF RLeq(a, b) THEN a ELSE b

RECURSIVE RSum(_)
RSum(s) == IF s = <<>> THEN Rat(0, 1) ELSE RAdd(Head(s), RSum(Tail(s)))

RECURSIVE RMax(_)
RMax(s) ==
    IF Len(s) = 1 THEN s[1]
    ELSE LET m == RMax(Tail(s))
         IN  IF RLeq(m, s[1]) THEN s[1] ELSE m

\* the non-NaN entries of a column, in order
Valid(col) == SelectSeq(col, LAMBDA x : x # NaN)

\* Series.mean(): NaN entries are skipped, an empty selection gives NaN
SeriesMean(col) ==
    LET v == Valid(col)
    IN  IF v = <<>> THEN NaN
        ELSE LET s == RSum(v) IN Rat(s.num, s.den * Len(v))

\* Series.max(): NaN entries are skipped, an empty selection gives NaN
SeriesMax(col) ==
    LET v == Valid(col)
    IN  IF v = <<>> THEN NaN ELSE RMax(v)

\* ------------------------------------------------------------ the table
Timestamp == "Timestamp"
CpuTemp == "CPU Temp"
SysTemp == "System Temp"
PeciTemp == "PECI Temp"
FanSpeed == "Fan Speed"
CpuUsage == "CPU Usage"
GpuTemp == "GPU Temp"
GpuFan == "GPU Fan Speed"

RequiredSeries == {CpuTemp, SysTemp, PeciTemp, FanSpeed, CpuUsage}
OptionalSeries == {GpuTemp, GpuFan}
AllColumns == {Timestamp} \cup RequiredSeries \cup OptionalSeries

\* the order in which lines 20-28 smooth the series
SmoothOrder == <<CpuTemp, SysTemp, PeciTemp, FanSpeed, CpuUsage, GpuTemp, GpuFan>>

\* the column c of the table as a sequence
Column(rows, c) == [i \in 1..Len(rows) |-> rows[i][c]]

\* ------------------------------------------------------ rolling average
OffsetHalf(w) == w \div 2

\* pandas FixedWindowIndexer with center=True: offset = (window - 1) // 2
Offset(w) == (w - 1) \div 2

WindowStartShifted(i, w) == i - w + 2 + Offset(w)

\* first row of the window that feeds row i: end - window, end = i + 1 + offset
WindowStart(i, w) == i - w + 1 + Offset(w)

\* rows [start, start + w - 1] feed the value at row i
WindowRows(i, w) == WindowStart(i, w) .. (WindowStart(i, w) + w - 1)

\* col.rolling(window=w, center=True).mean(), min_periods defaults to w
RollingMean(col, w) ==
    [i \in 1..Len(col) |->
        LET obs == {j \in WindowRows(i, w) \cap (1..Len(col)) : col[j] # NaN}
            win == [k \in 1..w |-> col[WindowStart(i, w) + k - 1]]
        IN  IF Cardinality(obs) >= w
            THEN LET s == RSum(win) IN Rat(s.num, s.den * w)
            ELSE NaN]

\* df[c] = df[c].rolling(...).mean() for one column
SmoothColumn(rows, c, w) ==
    LET m == RollingMean(Column(rows, c), w)
    IN  [i \in 1..Len(rows) |-> [rows[i] EXCEPT ![c] = m[i]]]

RECURSIVE SmoothColumns(_, _, _, _)
SmoothColumns(rows, cols, k, w) ==
    IF k > Len(SmoothOrder) THEN rows
    ELSE IF SmoothOrder[k] \in cols
         THEN SmoothColumns(SmoothColumn(rows, SmoothOrder[k], w), cols, k + 1, w)
         ELSE SmoothColumns(rows, cols, k + 1, w)

KeepAllRows(rows) == rows

\* df.dropna(): a row goes when any of its cells is NaN
DropNa(rows) == SelectSeq(rows, LAMBDA r : \A c \in DOMAIN r : r[c] # NaN)

\* `if smooth_window:` -- None and 0 are falsy
Truthy(w) == w.type = "int" /\ w.value # 0

\* --------------------------------------------------- names and strings
\* str(n) of an integer, as a sequence of characters
Digits == <<"0", "1", "2", "3", "4", "5", "6", "7", "8", "9">>

RECURSIVE StrNat(_)
StrNat(n) == IF n < 10 THEN <<Digits[n + 1]>>
             ELSE StrNat(n \div 10) \o <<Digits[(n % 10) + 1]>>

Str(n) == IF n < 0 THEN <<"-">> \o StrNat(-n) ELSE StrNat(n)

\* index of the last occurrence of ch in the sequence s, 0 when absent
LastIndexOf(s, ch) ==
    LET hits == {i \in 1..Len(s) : s[i] = ch}
    IN  IF hits = {} THEN 0 ELSE CHOOSE i \in hits : \A j \in hits : j <= i

\* Path(p).name: what follows the last "/"
PathName(p) == SubSeq(p, LastIndexOf(p, "/") + 1, Len(p))

\* Path(p).stem: the name without its last suffix; a leading or a trailing
\* dot is not a suffix separator
Stem(p) ==
    LET name == PathName(p)
        i    == LastIndexOf(name, ".")
    IN  IF 1 < i /\ i < Len(name) THEN SubSeq(name, 1, i - 1) ELSE name

BaseTitle == <<"System & GPU Temperatures, Fan Speeds, and CPU Load Over Time">>

\* lines 65-67
Title(w) ==
    IF Truthy(w) THEN BaseTitle \o <<" (Smoothed, Window=">> \o Str(w.value) \o <<")">>
    ELSE BaseTitle

OutputFileNotNone(p, w) ==
    IF w # None THEN Stem(p) \o <<"_smooth">> \o Str(w.value) \o <<".png">>
    ELSE Stem(p) \o <<".png">>

\* lines 97-100
OutputFile(p, w) ==
    IF Truthy(w) THEN Stem(p) \o <<"_smooth">> \o Str(w.value) \o <<".png">>
    ELSE Stem(p) \o <<".png">>

\* ---------------------------------------------------- statistics, lines
\* the text of one legend label (lines 36-46): the label, the two
\* statistics and the unit
StatsLabel(label, rows, c, unit) ==
    [label |-> label, mean |-> SeriesMean(Column(rows, c)),
     max |-> SeriesMax(Column(rows, c)), unit |-> unit]

\* a line handle returned by ax.plot (lines 49-62)
Line(axis, c, color, style) ==
    [axis |-> axis, column |-> c, color |-> color, linestyle |-> style]

LegendAppended(ln, st) ==
    [lines  |-> <<ln.cpu_line, ln.sys_line, ln.peci_line, ln.fan_line, ln.cpu_load_line>>
                \o (IF ln.gpu_temp_line # None THEN <<ln.gpu_temp_line>> ELSE <<>>)
                \o (IF ln.gpu_fan_line # None THEN <<ln.gpu_fan_line>> ELSE <<>>),
     labels |-> <<st.cpu_stats, st.sys_stats, st.peci_stats, st.fan_stats, st.cpu_load_stats>>
                \o (IF ln.gpu_temp_line # None THEN <<st.gpu_temp_stats>> ELSE <<>>)
                \o (IF ln.gpu_fan_line # None THEN <<st.gpu_fan_stats>> ELSE <<>>)]

\* lines 77-86: the handles and the labels of the combined legend
Legend(ln, st) ==
    [lines  |-> <<ln.cpu_line, ln.sys_line, ln.peci_line>>
                \o (IF ln.gpu_temp_line # None THEN <<ln.gpu_temp_line>> ELSE <<>>)
                \o <<ln.fan_line, ln.cpu_load_line>>
                \o (IF ln.gpu_fan_line # None THEN <<ln.gpu_fan_line>> ELSE <<>>),
     labels |-> <<st.cpu_stats, st.sys_stats, st.peci_stats>>
                \o (IF ln.gpu_temp_line # None THEN <<st.gpu_temp_stats>> ELSE <<>>)
                \o <<st.fan_stats, st.cpu_load_stats>>
                \o (IF ln.gpu_fan_line # None THEN <<st.gpu_fan_stats>> ELSE <<>>)]

\* ------------------------------------------------------------- state
VARIABLES
    csv_file,       \* argument: the path, a sequence of characters
    smooth_window,  \* argument: None or an integer
    fileKind,       \* the file at csv_file: "missing", "zero_bytes", "table"
    header,         \* the column names of the file
    fileRows,       \* the data rows of the file, one number per row
    tsParse,        \* whether the Timestamp strings of the file parse
    df,             \* the DataFrame, None before read_csv
    smoothed,       \* whether lines 19-30 have run
    pc,             \* position in plot_temperature_data
    fig,            \* the figure: "none", "open", "closed"
    stats,          \* the *_stats label variables
    lines,          \* the *_line handle variables
    title,          \* the chart title, <<>> before it is set
    legend,         \* the combined legend
    output_file,    \* the output file name, <<>> before it is set
    files,          \* the image files written
    stdout,         \* the messages printed
    exitCode,       \* None while running, then PyInt(0) or PyInt(1)
    temps,          \* plot_fan_curve: the sampled temperatures
    fan_speeds,     \* plot_fan_curve: the percentages computed so far
    fanPc           \* plot_fan_curve: position in the script

tsVars == <<csv_file, smooth_window, fileKind, header, fileRows, tsParse, df, smoothed, pc,
            fig, stats, lines, title, legend, output_file, files, stdout, exitCode>>
fanVars == <<temps, fan_speeds, fanPc>>
vars == <<tsVars, fanVars>>

\* ------------------------------------------------------------ inputs
Paths == { <<"l", "o", "g", ".", "c", "s", "v">>,
           <<"d", ".", "1", "/", "f", ".", "c">>,
           <<".", "c", "s", "v">> }

WindowArgs == {None} \cup {PyInt(n) : n \in -1 .. MaxWindow}

\* the headers tried: the five required series with any of the optional
\* ones, and the full header with one required column left out
Headers == {{Timestamp} \cup RequiredSeries \cup o : o \in SUBSET OptionalSeries}
           \cup {AllColumns \ {c} : c \in {Timestamp} \cup RequiredSeries}

RECURSIVE SeqsUpTo(_, _)
SeqsUpTo(S, n) ==
    IF n = 0 THEN {<<>>}
    ELSE LET shorter == SeqsUpTo(S, n - 1)
         IN  shorter \cup {Append(q, x) : q \in {r \in shorter : Len(r) = n - 1}, x \in S}

\* position of a series in SmoothOrder
SeriesIndex(c) == CHOOSE k \in 1..Len(SmoothOrder) : SmoothOrder[k] = c

\* the number written in row b's cell of series c: series differ by a
\* scale and a shift so that no two columns of a file are equal
CellValue(b, c) == b * SeriesIndex(c) + SeriesIndex(c)

\* pd.read_csv of a file that has a header: numbers parsed, timestamps strings
ReadCsv(hdr, rws) ==
    [columns |-> hdr,
     rows |-> [i \in 1..Len(rws) |->
                 [c \in hdr |-> IF c = Timestamp THEN [str |-> i]
                                ELSE Rat(CellValue(rws[i], c), 1)]]]

\* pd.to_datetime of the Timestamp column
ToDatetimeRows(rows) ==
    [i \in 1..Len(rows) |-> [rows[i] EXCEPT ![Timestamp] = [time |-> rows[i][Timestamp].str]]]

NoStats == [cpu_stats |-> None, sys_stats |-> None, peci_stats |-> None,
            fan_stats |-> None, cpu_load_stats |-> None,
            gpu_temp_stats |-> None, gpu_fan_stats |-> None]

NoLines == [cpu_line |-> None, sys_line |-> None, peci_line |-> None,
            gpu_temp_line |-> None, fan_line |-> None, cpu_load_line |-> None,
            gpu_fan_line |-> None]

FanIdle == temps = <<>> /\ fan_speeds = <<>> /\ fanPc = "idle"

TsIdle ==
    /\ csv_file = <<>>
    /\ smooth_window = None
    /\ fileKind = "missing"
    /\ header = {}
    /\ fileRows = <<>>
    /\ tsParse = TRUE
    /\ df = None
    /\ smoothed = FALSE
    /\ pc = "idle"
    /\ fig = "none"
    /\ stats = NoStats
    /\ lines = NoLines
    /\ title = <<>>
    /\ legend = None
    /\ output_file = <<>>
    /\ files = {}
    /\ stdout = <<>>
    /\ exitCode = None

Init ==
    /\ csv_file \in Paths
    /\ smooth_window \in WindowArgs
    /\ \/ /\ fileKind \in {"missing", "zero_bytes"}
          /\ header = {}
          /\ fileRows = <<>>
          /\ tsParse = TRUE
       \/ /\ fileKind = "table"
          /\ header \in Headers
          /\ fileRows \in SeqsUpTo(0..MaxVal, MaxRows)
          /\ tsParse \in BOOLEAN
          /\ (~tsParse) => (fileRows # <<>> /\ header = AllColumns)
    /\ df = None
    /\ smoothed = FALSE
    /\ pc = "read_csv"
    /\ fig = "none"
    /\ stats = NoStats
    /\ lines = NoLines
    /\ title = <<>>
    /\ legend = None
    /\ output_file = <<>>
    /\ files = {}
    /\ stdout = <<>>
    /\ exitCode = None
    /\ FanIdle

\* ------------------------------------------------------------ actions
\* an exception reaches one of the handlers of lines 108-116: the message
\* is printed and sys.exit(1) ends the run
Fail(msg) ==
    /\ stdout' = Append(stdout, msg)
    /\ exitCode' = PyInt(1)
    /\ pc' = "exited"

NotFoundMsg == [kind |-> "not_found", text |-> csv_file]
EmptyMsg == [kind |-> "empty", text |-> csv_file]
ProcessingMsg(e) == [kind |-> "processing", text |-> <<e>>]
SavedMsg(f) == [kind |-> "saved", text |-> f]

\* line 12
ReadCsvStep ==
    /\ pc = "read_csv"
    /\ IF fileKind = "missing"
       THEN Fail(NotFoundMsg) /\ UNCHANGED df
       ELSE IF fileKind = "zero_bytes"
       THEN Fail(EmptyMsg) /\ UNCHANGED df
       ELSE /\ df' = ReadCsv(header, fileRows)
            /\ pc' = "to_datetime"
            /\ UNCHANGED <<stdout, exitCode>>
    /\ UNCHANGED <<csv_file, smooth_window, fileKind, header, fileRows, tsParse,
                   smoothed, fig, stats, lines, title, legend, output_file, files>>
    /\ UNCHANGED fanVars

\* line 15
ToDatetimeStep ==
    /\ pc = "to_datetime"
    /\ IF Timestamp \notin df.columns
       THEN Fail(ProcessingMsg("KeyError")) /\ UNCHANGED df
       ELSE IF ~tsParse
       THEN Fail(ProcessingMsg("ValueError")) /\ UNCHANGED df
       ELSE /\ df' = [df EXCEPT !.rows = ToDatetimeRows(df.rows)]
            /\ pc' = "smooth"
            /\ UNCHANGED <<stdout, exitCode>>
    /\ UNCHANGED <<csv_file, smooth_window, fileKind, header, fileRows, tsParse,
                   smoothed, fig, stats, lines, title, legend, output_file, files>>
    /\ UNCHANGED fanVars

\* lines 18-30
SmoothStep ==
    /\ pc = "smooth"
    /\ IF ~Truthy(smooth_window)
       THEN /\ pc' = "subplots"
            /\ UNCHANGED <<df, smoothed, stdout, exitCode>>
       ELSE IF CpuTemp \notin df.columns
       THEN Fail(ProcessingMsg("KeyError")) /\ UNCHANGED <<df, smoothed>>
       ELSE IF smooth_window.value < 0
       THEN Fail(ProcessingMsg("ValueError")) /\ UNCHANGED <<df, smoothed>>
       ELSE IF ~(RequiredSeries \subseteq df.columns)
       THEN Fail(ProcessingMsg("KeyError")) /\ UNCHANGED <<df, smoothed>>
       ELSE /\ df' = [df EXCEPT !.rows =
                        DropNa(SmoothColumns(df.rows, df.columns, 1, smooth_window.value))]
            /\ smoothed' = TRUE
            /\ pc' = "subplots"
            /\ UNCHANGED <<stdout, exitCode>>
    /\ UNCHANGED <<csv_file, smooth_window, fileKind, header, fileRows, tsParse,
                   fig, stats, lines, title, legend, output_file, files>>
    /\ UNCHANGED fanVars

\* line 33
SubplotsStep ==
    /\ pc = "subplots"
    /\ fig' = "open"
    /\ pc' = "stats"
    /\ UNCHANGED <<csv_file, smooth_window, fileKind, header, fileRows, tsParse, df,
                   smoothed,
                   stats, lines, title, legend, output_file, files, stdout, exitCode>>
    /\ UNCHANGED fanVars

\* lines 36-46
StatsStep ==
    /\ pc = "stats"
    /\ IF ~(RequiredSeries \subseteq df.columns)
       THEN Fail(ProcessingMsg("KeyError")) /\ UNCHANGED stats
       ELSE /\ stats' =
                [cpu_stats |-> StatsLabel("CPU Temp", df.rows, CpuTemp, "C"),
                 sys_stats |-> StatsLabel("System Temp", df.rows, SysTemp, "C"),
                 peci_stats |-> StatsLabel("PECI Temp", df.rows, PeciTemp, "C"),
                 fan_stats |-> StatsLabel("Fan Speed", df.rows, FanSpeed, "%"),
                 cpu_load_stats |-> StatsLabel("CPU Load", df.rows, CpuUsage, "%"),
                 gpu_temp_stats |-> IF GpuTemp \in df.columns
                                    THEN StatsLabel("GPU Temp", df.rows, GpuTemp, "C")
                                    ELSE None,
                 gpu_fan_stats |-> IF GpuFan \in df.columns
                                   THEN StatsLabel("GPU Fan", df.rows, GpuFan, "%")
                                   ELSE None]
            /\ pc' = "plot"
            /\ UNCHANGED <<stdout, exitCode>>
    /\ UNCHANGED <<csv_file, smooth_window, fileKind, header, fileRows, tsParse, df,
                   smoothed,
                   fig, lines, title, legend, output_file, files>>
    /\ UNCHANGED fanVars

\* lines 49-62
PlotStep ==
    /\ pc = "plot"
    /\ lines' =
         [cpu_line |-> Line("ax1", CpuTemp, "red", "-"),
          sys_line |-> Line("ax1", SysTemp, "orange", "-"),
          peci_line |-> Line("ax1", PeciTemp, "green", "-"),
          gpu_temp_line |-> IF GpuTemp \in df.columns
                            THEN Line("ax1", GpuTemp, "magenta", "-") ELSE None,
          fan_line |-> Line("ax2", FanSpeed, "blue", "--"),
          cpu_load_line |-> Line("ax2", CpuUsage, "purple", ":"),
          gpu_fan_line |-> IF GpuFan \in df.columns
                           THEN Line("ax2", GpuFan, "cyan", "-.") ELSE None]
    /\ pc' = "customize"
    /\ UNCHANGED <<csv_file, smooth_window, fileKind, header, fileRows, tsParse, df,
                   smoothed,
                   fig, stats, title, legend, output_file, files, stdout, exitCode>>
    /\ UNCHANGED fanVars

\* lines 65-94
CustomizeStep ==
    /\ pc = "customize"
    /\ title' = Title(smooth_window)
    /\ legend' = Legend(lines, stats)
    /\ pc' = "output_file"
    /\ UNCHANGED <<csv_file, smooth_window, fileKind, header, fileRows, tsParse, df,
                   smoothed,
                   fig, stats, lines, output_file, files, stdout, exitCode>>
    /\ UNCHANGED fanVars

\* lines 97-100
OutputFileStep ==
    /\ pc = "output_file"
    /\ output_file' = OutputFile(csv_file, smooth_window)
    /\ pc' = "savefig"
    /\ UNCHANGED <<csv_file, smooth_window, fileKind, header, fileRows, tsParse, df,
                   smoothed,
                   fig, stats, lines, title, legend, files, stdout, exitCode>>
    /\ UNCHANGED fanVars

FilesAfterSavefigPartial(fs, f, ok) == fs \cup {f}

\* the image files after plt.savefig(f): the file is there when the call
\* returns and is not when it raises
FilesAfterSavefig(fs, f, ok) == IF ok THEN fs \cup {f} ELSE fs

\* line 103; the write succeeds or raises (directory, permissions, disk)
SavefigStep ==
    /\ pc = "savefig"
    /\ \E ok \in BOOLEAN :
         /\ files' = FilesAfterSavefig(files, output_file, ok)
         /\ IF ok
            THEN pc' = "close" /\ UNCHANGED <<stdout, exitCode>>
            ELSE Fail(ProcessingMsg("OSError"))
    /\ UNCHANGED <<csv_file, smooth_window, fileKind, header, fileRows, tsParse, df,
                   smoothed,
                   fig, stats, lines, title, legend, output_file>>
    /\ UNCHANGED fanVars

\* line 104
CloseStep ==
    /\ pc = "close"
    /\ fig' = "closed"
    /\ pc' = "print"
    /\ UNCHANGED <<csv_file, smooth_window, fileKind, header, fileRows, tsParse, df,
                   smoothed,
                   stats, lines, title, legend, output_file, files, stdout, exitCode>>
    /\ UNCHANGED fanVars

\* line 106, then the function and main return
PrintStep ==
    /\ pc = "print"
    /\ stdout' = Append(stdout, SavedMsg(output_file))
    /\ exitCode' = PyInt(0)
    /\ pc' = "returned"
    /\ UNCHANGED <<csv_file, smooth_window, fileKind, header, fileRows, tsParse, df,
                   smoothed,
                   fig, stats, lines, title, legend, output_file, files>>
    /\ UNCHANGED fanVars

Next ==
    \/ ReadCsvStep
    \/ ToDatetimeStep
    \/ SmoothStep
    \/ SubplotsStep
    \/ StatsStep
    \/ PlotStep
    \/ CustomizeStep
    \/ OutputFileStep
    \/ SavefigStep
    \/ CloseStep
    \/ PrintStep

Spec == Init /\ [][Next]_vars

\* ------------------------------------------------------ the fan curve
TEMP_MIN == 50
TEMP_MAX == 75
FAN_MIN == 20
FAN_MAX == 255

calculate_fan_speed_unclamped(temp) ==
    LET temp_diff    == RAdd(temp, Rat(-TEMP_MIN, 1))
        range_temp   == TEMP_MAX - TEMP_MIN
        fan_range    == FAN_MAX - FAN_MIN
        temp_factor  == RMul(RMul(temp_diff, temp_diff), temp_diff)
        range_factor == range_temp * range_temp * range_temp
    IN  RAdd(Rat(FAN_MIN, 1),
             RDiv(RMul(temp_factor, Rat(fan_range, 1)), Rat(range_factor, 1)))

\* lines 14-25
calculate_fan_speed(temp) ==
    LET temp_diff    == RAdd(temp, Rat(-TEMP_MIN, 1))
        range_temp   == TEMP_MAX - TEMP_MIN
        fan_range    == FAN_MAX - FAN_MIN
        temp_factor  == RMul(RMul(temp_diff, temp_diff), temp_diff)
        range_factor == range_temp * range_temp * range_temp
        speed        == RAdd(Rat(FAN_MIN, 1),
                             RDiv(RMul(temp_factor, Rat(fan_range, 1)),
                                  Rat(range_factor, 1)))
    IN  RMin(speed, Rat(FAN_MAX, 1))

\* line 28: calculate_fan_speed(t) * 100 / 255
FanPercentage(t) == RDiv(RMul(calculate_fan_speed(t), Rat(100, 1)), Rat(255, 1))

\* the temperatures tried: multiples of 1/TempDen degrees from MaxBelow
\* degrees under TEMP_MIN to MaxAbove degrees over TEMP_MAX
TempGrid ==
    {Rat(n, TempDen) : n \in ((TEMP_MIN - MaxBelow) * TempDen) .. ((TEMP_MAX + MaxAbove) * TempDen)}

\* two samples in ascending order, as np.linspace yields them
InitFan ==
    /\ TsIdle
    /\ temps \in {t \in TempGrid \X TempGrid : RLeq(t[1], t[2])}
    /\ fan_speeds = <<>>
    /\ fanPc = "fan_speeds"

\* line 28, one element of the list comprehension
FanSpeedStep ==
    /\ fanPc = "fan_speeds"
    /\ Len(fan_speeds) < Len(temps)
    /\ fan_speeds' = Append(fan_speeds, FanPercentage(temps[Len(fan_speeds) + 1]))
    /\ UNCHANGED <<temps, fanPc>>
    /\ UNCHANGED tsVars

\* lines 31-54
FanPlotStep ==
    /\ fanPc = "fan_speeds"
    /\ Len(fan_speeds) = Len(temps)
    /\ files' = files \cup {<<"fan_curve", ".png">>}
    /\ fanPc' = "done"
    /\ UNCHANGED <<temps, fan_speeds>>
    /\ UNCHANGED <<csv_file, smooth_window, fileKind, header, fileRows, tsParse, df,
                   smoothed, pc, fig, stats, lines, title, legend, output_file, stdout, exitCode>>

NextFan ==
    \/ FanSpeedStep
    \/ FanPlotStep

SpecFan == InitFan /\ [][NextFan]_vars

\* ------------------------------------------------------- properties
\* the file is a valid table: every required column, parseable timestamps
ValidTable ==
    /\ fileKind = "table"
    /\ ({Timestamp} \cup RequiredSeries) \subseteq header
    /\ tsParse

\* the smoothing step (lines 18-30) has completed without raising
SmoothDone == pc = "subplots" \/ fig # "none"

WindowIs(k) == smooth_window.type = "int" /\ smooth_window.value = k

WindowAtLeast(k) == smooth_window.type = "int" /\ smooth_window.value >= k

NumRows == Len(fileRows)

\* the table as read_csv and to_datetime produce it
RawRows == ToDatetimeRows(ReadCsv(header, fileRows).rows)

\* sum of the numbers the file has for series c in rows lo..hi
RECURSIVE RawSum(_, _, _)
RawSum(c, lo, hi) ==
    IF lo > hi THEN 0 ELSE CellValue(fileRows[lo], c) + RawSum(c, lo + 1, hi)

\* C1: for a valid table of n rows and a positive window w, the table after
\* rolling(...).mean() on every series and dropna() has n - (w - 1) rows
\* when w <= n and no row when w > n, and the smoothing step does not
\* raise in either case.
C1_RowCount ==
    (ValidTable /\ WindowAtLeast(1)) =>
        /\ (pc = "exited") => fig # "none"
        /\ SmoothDone =>
             /\ smoothed
             /\ Len(df.rows) = IF smooth_window.value <= NumRows
                               THEN NumRows - (smooth_window.value - 1)
                               ELSE 0

C1_Witness ==
    /\ ValidTable
    /\ WindowIs(2)
    /\ NumRows = 3
    /\ SmoothDone
    /\ Len(df.rows) = 2

\* C2: with smooth_window 1, 0 or None the table that reaches statistics
\* and plotting is the table that was read: same rows, same order, same
\* value in every series.
C2_Identity ==
    (ValidTable /\ SmoothDone /\ (smooth_window = None \/ WindowIs(0) \/ WindowIs(1))) =>
        df.rows = RawRows

C2_Witness ==
    /\ ValidTable
    /\ WindowIs(1)
    /\ smoothed
    /\ NumRows >= 2
    /\ pc = "stats"
    /\ df.rows = RawRows

\* C10 as stated: for 1 <= w <= n the rows that survive smoothing are the
\* rows floor(w/2) + 1 .. n - floor(w/2), floor(w/2) rows being removed at
\* each end.
C10_SymmetricDrop ==
    (ValidTable /\ SmoothDone /\ WindowAtLeast(1) /\ smooth_window.value <= NumRows) =>
        LET h == smooth_window.value \div 2
        IN  /\ Len(df.rows) = NumRows - 2 * h
            /\ \A k \in 1..Len(df.rows) : df.rows[k][Timestamp] = [time |-> k + h]

\* C10 amended: for 1 <= w <= n the rows removed are the first floor(w/2)
\* and the last floor((w-1)/2) rows, each removed whole (timestamp and
\* every series); surviving row i holds in every series the mean of the w
\* raw values of rows i - floor(w/2) .. i + floor((w-1)/2).
C10_CenteredWindow ==
    (ValidTable /\ SmoothDone /\ WindowAtLeast(1) /\ smooth_window.value <= NumRows) =>
        LET w    == smooth_window.value
            head == w \div 2
            tail == (w - 1) \div 2
        IN  /\ Len(df.rows) = NumRows - head - tail
            /\ \A k \in 1..Len(df.rows) :
                 LET i == k + head
                 IN  /\ DOMAIN df.rows[k] = header
                     /\ df.rows[k][Timestamp] = [time |-> i]
                     /\ \A c \in header \ {Timestamp} :
                          df.rows[k][c] = Rat(RawSum(c, i - head, i + tail), w)

C10_Witness ==
    /\ ValidTable
    /\ WindowIs(2)
    /\ NumRows = 3
    /\ header = AllColumns
    /\ SmoothDone
    /\ Len(df.rows) = 2
    /\ df.rows[1][Timestamp] = [time |-> 2]
    /\ fileRows[1] # fileRows[2]

\* the run has ended
Ended == pc \in {"returned", "exited"}

\* C3: a file with a header holding every required column and no data row
\* ends the run with exit code 1 and the "empty" message alone.
C3_HeaderOnlyIsEmpty ==
    (ValidTable /\ fileRows = <<>> /\ Ended) =>
        /\ exitCode = PyInt(1)
        /\ stdout = <<EmptyMsg>>

\* the labels whose statistics have been computed
StatsComputed ==
    {stats.cpu_stats, stats.sys_stats, stats.peci_stats, stats.fan_stats,
     stats.cpu_load_stats, stats.gpu_temp_stats, stats.gpu_fan_stats} \ {None}

\* C4: when the table that reaches the statistics step has no row, the run
\* ends in an error: no label is built with a NaN mean or max and no image
\* is written.
C4_EmptyTableIsAnError ==
    (fig # "none" /\ pc # "stats" /\ Len(df.rows) = 0) =>
        /\ pc = "exited"
        /\ \A l \in StatsComputed : l.mean # NaN /\ l.max # NaN
        /\ files = {}

\* C5: when the call ends, on success or on error, no figure that
\* plt.subplots created is still open.
C5_FigureReleased == Ended => fig # "open"

\* the legend order of the design, and the label each series carries
LegendOrder == <<CpuTemp, SysTemp, PeciTemp, GpuTemp, FanSpeed, CpuUsage, GpuFan>>

LabelOf(c) ==
    CASE c = CpuTemp -> "CPU Temp"
      [] c = SysTemp -> "System Temp"
      [] c = PeciTemp -> "PECI Temp"
      [] c = GpuTemp -> "GPU Temp"
      [] c = FanSpeed -> "Fan Speed"
      [] c = CpuUsage -> "CPU Load"
      [] c = GpuFan -> "GPU Fan"

\* C6: the combined legend is LegendOrder without the optional series the
\* file lacks: 5, 6 or 7 entries, handles and labels in the same order.
C6_LegendOrder ==
    (legend # None) =>
        LET expected == SelectSeq(LegendOrder, LAMBDA c : c \in header)
        IN  /\ Len(legend.lines) = 5 + Cardinality(header \cap OptionalSeries)
            /\ Len(legend.labels) = Len(legend.lines)
            /\ [i \in 1..Len(legend.lines) |-> legend.lines[i].column] = expected
            /\ [i \in 1..Len(legend.labels) |-> legend.labels[i].label]
                 = [i \in 1..Len(expected) |-> LabelOf(expected[i])]

C6_Witness ==
    /\ legend # None
    /\ header \cap OptionalSeries = OptionalSeries
    /\ Len(legend.lines) = 7
    /\ legend.lines[4].column = GpuTemp
    /\ legend.labels[7].label = "GPU Fan"

C9_NameAndTitleAgree ==
    (pc = "returned") =>
        LET note   == IF smooth_window.type = "int"
                      THEN <<" (Smoothed, Window=">> \o Str(smooth_window.value) \o <<")">>
                      ELSE <<>>
            suffix == IF smooth_window.type = "int"
                      THEN <<"_smooth">> \o Str(smooth_window.value)
                      ELSE <<>>
        IN  /\ title = IF smoothed THEN BaseTitle \o note ELSE BaseTitle
            /\ output_file = IF smoothed THEN Stem(csv_file) \o suffix \o <<".png">>
                             ELSE Stem(csv_file) \o <<".png">>
            /\ smoothed => smooth_window.type = "int"

C9_Witness ==
    /\ pc = "returned"
    /\ WindowIs(1)
    /\ smoothed
    /\ csv_file = <<"d", ".", "1", "/", "f", ".", "c">>
    /\ output_file = <<"f", "_smooth", "1", ".png">>
    /\ title = BaseTitle \o <<" (Smoothed, Window=", "1", ")">>

\* C7: the percentage is FAN_MIN * 100/255 at TEMP_MIN and FAN_MAX * 100/255
\* at TEMP_MAX, does not decrease from one temperature of
\* [TEMP_MIN, TEMP_MAX] to a higher one, and never exceeds FAN_MAX * 100/255
\* from TEMP_MIN upwards.
C7_FanCurve ==
    LET tmin == Rat(TEMP_MIN, 1)
        tmax == Rat(TEMP_MAX, 1)
        top  == Rat(FAN_MAX * 100, 255)
    IN  /\ \A i \in 1..Len(fan_speeds) :
             /\ (temps[i] = tmin) => fan_speeds[i] = Rat(FAN_MIN * 100, 255)
             /\ (temps[i] = tmax) => fan_speeds[i] = top
             /\ RLeq(tmin, temps[i]) => RLeq(fan_speeds[i], top)
        /\ (Len(fan_speeds) = 2 /\ RLeq(tmin, temps[1]) /\ RLeq(temps[2], tmax)) =>
             RLeq(fan_speeds[1], fan_speeds[2])

C7_Witness ==
    /\ Len(fan_speeds) = 2
    /\ temps[1] = Rat(2 * TEMP_MIN + 1, 2)
    /\ temps[2] = Rat(TEMP_MAX, 1)
    /\ fan_speeds[2] = Rat(100, 1)
    /\ ~RLeq(fan_speeds[2], fan_speeds[1])

====
